---- MODULE Spec2Model ----
(***************************************************************************)
(* Browser chat / voice client of smartheal-chatbot (static/js/main.js).   *)
(* The page's globals and the DOM nodes the script touches are the state;  *)
(* every event handler and every continuation after an await is an action. *)
(* Text is a sequence of one-character strings (fixed phrases are a        *)
(* one-element sequence holding the phrase).                               *)
(***************************************************************************)
EXTENDS Integers, Sequences, FiniteSets, TLC

\* ------------------------------------------------------------- bounds
\* operations (questions accepted, clearChat and startRecording calls) over one run
MaxOps == 3
\* segments of a transcription result
MaxSegs == 3

\* ------------------------------------------------------------- values
\* texts the user types: empty, blank, a word padded on both sides
InputTexts == {<<>>, <<" ">>, <<" ", "b", " ">>}
Answers == {<<"r">>}
ServerErrors == {"", "index not ready"}
LoadingIds == {1, 2}

ServerApology == <<"Sorry, I encountered an error while processing your question. Please try again.">>
NetworkApology == <<"Sorry, I encountered a network error. Please check your connection and try again.">>

MimeTypes == {"audio/wav", "audio/webm", "audio/mp4"}
\* what MediaRecorder.isTypeSupported accepts in the browser running the page:
\* none of the three types, or webm and mp4
Browsers == {{}, {"audio/webm", "audio/mp4"}}
Transcripts == {<<"a">>}
TranscribeErrors == {"", "no speech"}
Languages == {"en"}
\* speaker labels the diarisation gives out
Speakers == {<<"A">>, <<"B">>}
\* segment texts: blank, padded, and one the markup has to escape
SegTexts == {<<" ">>, <<" ", "a">>, <<"<">>}
SpeakerCounts == {1, 2}

EmptyChatEl == [cls |-> "empty-chat", id |-> 0, text |-> <<>>]

\* bodies response.json() can yield for /ask
AskResults ==
    {[kind |-> "obj", success |-> TRUE, answer |-> a, error |-> ""] : a \in Answers}
    \cup {[kind |-> "obj", success |-> FALSE, answer |-> <<>>, error |-> e] : e \in ServerErrors}
    \cup {[kind |-> "null", success |-> FALSE, answer |-> <<>>, error |-> ""]}

\* bodies response.json() can yield for /transcribe_audio
TranscribeResults ==
    {[kind |-> "obj", success |-> TRUE, transcription |-> t, error |-> "",
      language |-> l, segments |-> <<>>, speaker_count |-> 1] :
         t \in Transcripts, l \in Languages}
    \cup {[kind |-> "obj", success |-> FALSE, transcription |-> <<>>, error |-> e,
           language |-> "", segments |-> <<>>, speaker_count |-> 0] :
              e \in TranscribeErrors}
    \cup {[kind |-> "null", success |-> FALSE, transcription |-> <<>>, error |-> "",
           language |-> "", segments |-> <<>>, speaker_count |-> 0]}

\* no result was given to displayTranscriptionResult yet
NoResult ==
    [kind |-> "none", success |-> FALSE, transcription |-> <<>>, error |-> "",
     language |-> "", segments |-> <<>>, speaker_count |-> 0]

SeqsUpTo(S, n) == UNION {[1..k -> S] : k \in 0..n}

\* successful bodies with every segment list of up to MaxSegs segments
RenderResults ==
    {[kind |-> "obj", success |-> TRUE, transcription |-> <<"<">>, error |-> "",
      language |-> "hi", segments |-> segs, speaker_count |-> n] :
         segs \in SeqsUpTo([speaker : Speakers, text : SegTexts], MaxSegs),
         n \in SpeakerCounts}

VARIABLES
    isAsking,        \* let isAsking
    inputValue,      \* questionInput.value
    inputDisabled,   \* questionInput.disabled
    buttonDisabled,  \* askButton.disabled
    chat,            \* children of #chat-messages, in document order
    askReqs,         \* askQuestion invocations suspended at an await
    started,         \* operations begun so far: questions accepted, clearChat and
                     \* startRecording calls
    addLog,          \* addMessage calls made so far, in call order
    clearReqs,       \* clearChat invocations suspended at fetch('/clear')
    alerts,          \* .alert-dismissible elements in the document; the 5 s timer
                     \* of each is pending
    staleTimers,     \* pending 5 s timers of alert elements already removed
    supported,       \* the types MediaRecorder.isTypeSupported accepts in this browser
    isRecording,     \* let isRecording
    mediaRecorder,   \* let mediaRecorder: 0 for null, else an index into recorders
    audioChunks,     \* let audioChunks
    gumPending,      \* startRecording invocations suspended at getUserMedia
    streams,         \* streams[s]: whether the tracks of acquired stream s are live
    recorders,       \* the MediaRecorder objects created so far
    txReqs,          \* processAudioBlob and handleAudioFile invocations suspended
                     \* at an await
    fileInput,       \* the file input holds a selected file
    currentTranscription, \* let currentTranscription
    panelVisible,    \* #transcription-result is displayed
    transcriptionText, \* what #transcription-text shows
    speakerInfo,     \* what #speaker-info shows
    shownResult,     \* the result displayTranscriptionResult was last called with
    recordText,      \* text of #record-text
    recordingStatus  \* text of #recording-status

chatVars == <<isAsking, inputDisabled, buttonDisabled, chat, askReqs, started, addLog,
              clearReqs>>
alertVars == <<alerts, staleTimers>>
recVars == <<isRecording, mediaRecorder, audioChunks, gumPending, streams, recorders,
             recordText>>
panelVars == <<currentTranscription, panelVisible, transcriptionText, speakerInfo,
               shownResult>>
txVars == <<txReqs, fileInput, panelVars>>

vars == <<isAsking, inputValue, inputDisabled, buttonDisabled, chat, askReqs,
          started, addLog, clearReqs, alerts, staleTimers, supported, isRecording,
          mediaRecorder, audioChunks, gumPending, streams, recorders, txReqs,
          fileInput, currentTranscription, panelVisible, transcriptionText,
          speakerInfo, shownResult, recordText, recordingStatus>>

\* ------------------------------------------------------------- helpers
IsSpace(c) == c = " "

RECURSIVE TrimStart(_)
TrimStart(s) == IF s # <<>> /\ IsSpace(Head(s)) THEN TrimStart(Tail(s)) ELSE s

RECURSIVE TrimEnd(_)
TrimEnd(s) ==
    IF s # <<>> /\ IsSpace(s[Len(s)]) THEN TrimEnd(SubSeq(s, 1, Len(s) - 1)) ELSE s

\* String.prototype.trim
Trim(s) == TrimEnd(TrimStart(s))

RemoveAt(s, i) == SubSeq(s, 1, i - 1) \o SubSeq(s, i + 1, Len(s))

\* querySelector('.empty-chat'): the first node of that class, 0 if none
FirstOfClass(c, cls) ==
    IF \E i \in 1..Len(c) : c[i].cls = cls
    THEN CHOOSE i \in 1..Len(c) : c[i].cls = cls /\ \A j \in 1..(i - 1) : c[j].cls # cls
    ELSE 0

\* getElementById: the first node carrying the id, 0 if none
FirstWithId(c, id) ==
    IF \E i \in 1..Len(c) : c[i].id = id
    THEN CHOOSE i \in 1..Len(c) : c[i].id = id /\ \A j \in 1..(i - 1) : c[j].id # id
    ELSE 0

\* what the serialisation of a text node writes for one character
EscapeChar(c) ==
    IF c = "&" THEN <<"&", "a", "m", "p", ";">>
    ELSE IF c = "<" THEN <<"&", "l", "t", ";">>
    ELSE IF c = ">" THEN <<"&", "g", "t", ";">>
    ELSE <<c>>

\* escapeHtml: div.textContent = text; return div.innerHTML
RECURSIVE EscapeHtml(_)
EscapeHtml(text) ==
    IF text = <<>> THEN <<>> ELSE EscapeChar(Head(text)) \o EscapeHtml(Tail(text))

StartsWith(s, prefix) == Len(s) >= Len(prefix) /\ SubSeq(s, 1, Len(prefix)) = prefix
DropFirst(s, n) == SubSeq(s, n + 1, Len(s))

\* the rest of markup h after the tag that opens at its head: what follows the
\* next ">", nothing if the tag is not closed
RECURSIVE AfterTag(_)
AfterTag(h) ==
    IF h = <<>> THEN <<>>
    ELSE IF Head(h) = ">" THEN Tail(h)
    ELSE AfterTag(Tail(h))

\* the text a node shows once markup h was assigned to its innerHTML: character
\* references are decoded, tags show no text
RECURSIVE ParseHtml(_)
ParseHtml(h) ==
    IF h = <<>> THEN <<>>
    ELSE IF StartsWith(h, <<"&", "a", "m", "p", ";">>) THEN <<"&">> \o ParseHtml(DropFirst(h, 5))
    ELSE IF StartsWith(h, <<"&", "l", "t", ";">>) THEN <<"<">> \o ParseHtml(DropFirst(h, 4))
    ELSE IF StartsWith(h, <<"&", "g", "t", ";">>) THEN <<">">> \o ParseHtml(DropFirst(h, 4))
    ELSE IF Head(h) = "<" THEN ParseHtml(AfterTag(Tail(h)))
    ELSE <<Head(h)>> \o ParseHtml(Tail(h))

\* addMessage: drop the first .empty-chat node, append the message node, its
\* text written as escapeHtml(content) into the node's innerHTML
AddMessage(c, role, content) ==
    LET k == FirstOfClass(c, "empty-chat")
        c1 == IF k = 0 THEN c ELSE RemoveAt(c, k)
    IN Append(c1, [cls |-> role, id |-> 0, text |-> ParseHtml(EscapeHtml(content))])

\* addLoadingMessage: append the "Thinking" node under the given id
AddLoadingMessage(c, loadingId) ==
    Append(c, [cls |-> "loading", id |-> loadingId, text |-> <<>>])

KeepLoadingMessage(c, loadingId) == c

\* removeLoadingMessage: remove the first node carrying the id, if any
RemoveLoadingMessage(c, loadingId) ==
    LET k == FirstWithId(c, loadingId)
    IN IF k = 0 THEN c ELSE RemoveAt(c, k)

ShowAlertKeepingOthers(message, type) ==
    /\ alerts' = Append(alerts, [message |-> message, type |-> type])
    /\ staleTimers' = staleTimers

\* showAlert: remove every existing alert (their timers stay pending), insert the
\* new one, arm its timer
ShowAlert(message, type) ==
    /\ alerts' = <<[message |-> message, type |-> type]>>
    /\ staleTimers' = staleTimers + Len(alerts)

\* the run may begin one more operation
CanStart == started < MaxOps

\* the number the next accepted question gets: one more than those accepted so far
NextQ == Cardinality({k \in 1..Len(addLog) : addLog[k].role = "user"}) + 1

\* ------------------------------------------------------------- initial state
InitIn(profiles) ==
    /\ isAsking = FALSE
    /\ inputValue = <<>>
    /\ inputDisabled = FALSE
    /\ buttonDisabled = FALSE
    /\ chat = <<EmptyChatEl>>
    /\ askReqs = <<>>
    /\ started = 0
    /\ addLog = <<>>
    /\ clearReqs = 0
    /\ alerts = <<>>
    /\ staleTimers = 0
    /\ supported \in profiles
    /\ isRecording = FALSE
    /\ mediaRecorder = 0
    /\ audioChunks = <<>>
    /\ gumPending = 0
    /\ streams = <<>>
    /\ recorders = <<>>
    /\ txReqs = <<>>
    /\ fileInput = FALSE
    /\ currentTranscription = <<>>
    /\ panelVisible = FALSE
    /\ transcriptionText = [text |-> <<>>, language |-> ""]
    /\ speakerInfo = [kind |-> "empty", count |-> 0, entries |-> <<>>]
    /\ shownResult = NoResult
    /\ recordText = "Record"
    /\ recordingStatus = ""

\* the page as loaded, in one of the browsers
Init == InitIn(Browsers)

\* ------------------------------------------------------------- chat actions
\* the user edits the question field (possible only while it is enabled)
TypeInput ==
    /\ ~inputDisabled
    /\ \E v \in InputTexts : inputValue' = v
    /\ UNCHANGED <<chatVars, alertVars, supported, recordingStatus, recVars, txVars>>

\* the guard of askQuestion: the call goes on only with a question and when idle
AskAcceptedNoBusyGuard == Trim(inputValue) # <<>>
AskAcceptedUntrimmed == ~(inputValue = <<>> \/ isAsking)
AskAccepted == ~(Trim(inputValue) = <<>> \/ isAsking)

\* askQuestion up to its first await
AskQuestion ==
    LET question == Trim(inputValue) IN
    IF ~AskAccepted
    THEN UNCHANGED vars
    ELSE /\ CanStart
         /\ \E loadingId \in LoadingIds :
              /\ chat' = AddLoadingMessage(AddMessage(chat, "user", question), loadingId)
              /\ askReqs' = Append(askReqs, [question |-> question, loadingId |-> loadingId,
                                             q |-> NextQ, pc |-> "fetch"])
         /\ isAsking' = TRUE
         /\ inputDisabled' = TRUE
         /\ buttonDisabled' = TRUE
         /\ inputValue' = <<>>
         /\ started' = started + 1
         /\ addLog' = Append(addLog, [role |-> "user", q |-> NextQ])
         /\ UNCHANGED <<clearReqs, alertVars, supported, recordingStatus, recVars, txVars>>

\* the invocation ends with the flag and the controls left as they are
AskNoFinally(i) ==
    /\ askReqs' = RemoveAt(askReqs, i)
    /\ UNCHANGED <<isAsking, inputDisabled, buttonDisabled, inputValue, started, clearReqs,
                   supported, recordingStatus, recVars, txVars>>

\* the finally block of askQuestion
AskFinally(i) ==
    /\ isAsking' = FALSE
    /\ inputDisabled' = FALSE
    /\ buttonDisabled' = FALSE
    /\ askReqs' = RemoveAt(askReqs, i)
    /\ UNCHANGED <<inputValue, started, clearReqs, supported, recordingStatus, recVars,
                   txVars>>

\* the catch block of askQuestion, then finally
AskCatch(i) ==
    LET r == askReqs[i] IN
    /\ chat' = AddMessage(RemoveLoadingMessage(chat, r.loadingId), "assistant", NetworkApology)
    /\ ShowAlert("Network error occurred", "danger")
    /\ addLog' = Append(addLog, [role |-> "assistant", q |-> r.q])
    /\ AskFinally(i)

\* fetch('/ask') resolves with a response (whatever its HTTP status)
AskFetchResolve ==
    \E i \in 1..Len(askReqs) :
        /\ askReqs[i].pc = "fetch"
        /\ askReqs' = [askReqs EXCEPT ![i].pc = "json"]
        /\ UNCHANGED <<isAsking, inputValue, inputDisabled, buttonDisabled, chat,
                       started, addLog, clearReqs, alertVars, supported,
                       recordingStatus, recVars, txVars>>

\* fetch('/ask') of invocation i rejects: transport error
AskFetchRejectAt(i) ==
    /\ askReqs[i].pc = "fetch"
    /\ AskCatch(i)

AskFetchReject == \E i \in 1..Len(askReqs) : AskFetchRejectAt(i)

\* response.json() rejects: the body is not JSON
AskJsonReject ==
    \E i \in 1..Len(askReqs) :
        /\ askReqs[i].pc = "json"
        /\ AskCatch(i)

\* response.json() of invocation i resolves with result
AskJsonResolveWith(i, result) ==
        LET r == askReqs[i]
            c1 == RemoveLoadingMessage(chat, r.loadingId)
        IN
        /\ r.pc = "json"
        /\ IF result.kind = "null"
           THEN AskCatch(i)   \* result.success throws a TypeError
           ELSE IF result.success
           THEN /\ chat' = AddMessage(c1, "assistant", result.answer)
                /\ addLog' = Append(addLog, [role |-> "assistant", q |-> r.q])
                /\ UNCHANGED alertVars
                /\ AskFinally(i)
           ELSE /\ ShowAlert(IF result.error # "" THEN result.error
                             ELSE "Failed to get answer", "danger")
                /\ chat' = AddMessage(c1, "assistant", ServerApology)
                /\ addLog' = Append(addLog, [role |-> "assistant", q |-> r.q])
                /\ AskFinally(i)

AskJsonResolve ==
    \E i \in 1..Len(askReqs), result \in AskResults : AskJsonResolveWith(i, result)

\* clearChat up to its await
ClearChat ==
    /\ CanStart
    /\ started' = started + 1
    /\ clearReqs' = clearReqs + 1
    /\ UNCHANGED <<isAsking, inputValue, inputDisabled, buttonDisabled, chat, askReqs,
                   addLog, alertVars, supported, recordingStatus, recVars,
                   txVars>>

\* fetch('/clear') resolves with response.ok
ClearOk ==
    /\ clearReqs > 0
    /\ clearReqs' = clearReqs - 1
    /\ chat' = <<EmptyChatEl>>
    /\ ShowAlert("Chat history cleared", "info")
    /\ UNCHANGED <<isAsking, inputValue, inputDisabled, buttonDisabled, askReqs,
                   started, addLog, supported, recordingStatus, recVars, txVars>>

\* fetch('/clear') resolves with a non-2xx response: the if has no else
ClearNotOk ==
    /\ clearReqs > 0
    /\ clearReqs' = clearReqs - 1
    /\ UNCHANGED <<isAsking, inputValue, inputDisabled, buttonDisabled, chat, askReqs,
                   started, addLog, alertVars, supported, recordingStatus, recVars,
                   txVars>>

\* fetch('/clear') rejects: transport error
ClearReject ==
    /\ clearReqs > 0
    /\ clearReqs' = clearReqs - 1
    /\ ShowAlert("Failed to clear chat", "danger")
    /\ UNCHANGED <<isAsking, inputValue, inputDisabled, buttonDisabled, chat, askReqs,
                   started, addLog, supported, recordingStatus, recVars, txVars>>

\* a timer that removes whichever alert is displayed when it fires
TimerRemovesDisplayed ==
    IF staleTimers > 0
    THEN /\ alerts' = <<>>
         /\ staleTimers' = staleTimers - 1 + Len(alerts)
    ELSE /\ alerts # <<>>
         /\ alerts' = Tail(alerts)
         /\ UNCHANGED staleTimers

\* the oldest pending 5 s timer fires (the timers have one delay, so they fire
\* in the order they were armed): it removes its own alert element if that is
\* still attached, and nothing otherwise
TimerFires ==
    IF staleTimers > 0
    THEN /\ staleTimers' = staleTimers - 1
         /\ UNCHANGED alerts
    ELSE /\ alerts # <<>>
         /\ alerts' = Tail(alerts)
         /\ UNCHANGED staleTimers

AlertTimeout ==
    /\ TimerFires
    /\ UNCHANGED <<inputValue, chatVars, supported, recordingStatus, recVars, txVars>>

\* ------------------------------------------------------------- voice actions
\* a probe that asks for audio/mp4 before audio/webm
SelectMimeTypeMp4First(sup) ==
    IF "audio/wav" \in sup THEN "audio/wav"
    ELSE IF "audio/mp4" \in sup THEN "audio/mp4"
    ELSE IF "audio/webm" \in sup THEN "audio/webm"
    ELSE "audio/wav"

\* the format probe of startRecording
SelectMimeType(sup) ==
    IF "audio/wav" \in sup THEN "audio/wav"
    ELSE IF "audio/webm" \in sup THEN "audio/webm"
    ELSE IF "audio/mp4" \in sup THEN "audio/mp4"
    ELSE "audio/wav"

\* updateRecordingUI: the record button's text and the status line
RecordTextFor(recording) == IF recording THEN "Stop Recording" ELSE "Record"
StatusFor(recording) == IF recording THEN "Recording... Click stop when done." ELSE ""

\* startRecording up to its await
StartRecording ==
    /\ CanStart
    /\ started' = started + 1
    /\ gumPending' = gumPending + 1
    /\ UNCHANGED <<inputValue, isAsking, inputDisabled, buttonDisabled, chat, askReqs,
                   addLog, clearReqs, alertVars, supported, recordingStatus,
                   isRecording, mediaRecorder, audioChunks, streams, recorders,
                   recordText, txVars>>

KeepTracks(st, s) == st

\* stream.getTracks().forEach(track => track.stop())
StopTracks(st, s) == [st EXCEPT ![s] = FALSE]

\* stopRecording
StopRecording ==
    IF mediaRecorder # 0 /\ isRecording
    THEN /\ recorders' = [recorders EXCEPT ![mediaRecorder] =
                             IF @.state = "recording"
                             THEN [@ EXCEPT !.state = "inactive", !.stopTask = TRUE]
                             ELSE @]
         /\ streams' = StopTracks(streams, recorders[mediaRecorder].stream)
         /\ isRecording' = FALSE
         /\ recordText' = RecordTextFor(FALSE)
         /\ recordingStatus' = "Processing audio..."
         /\ UNCHANGED <<inputValue, chatVars, alertVars, supported, mediaRecorder,
                        audioChunks, gumPending, txVars>>
    ELSE UNCHANGED vars

\* toggleRecording
ToggleRecording ==
    IF ~isRecording THEN StartRecording ELSE StopRecording

\* getUserMedia resolves with a stream; the rest of startRecording runs
GumResolve ==
    LET s == Len(streams) + 1
        mimeType == SelectMimeType(supported)
    IN
    /\ gumPending > 0
    /\ gumPending' = gumPending - 1
    /\ streams' = Append(streams, TRUE)
    /\ IF mimeType \in supported
       THEN /\ recorders' = Append(recorders, [stream |-> s, mimeType |-> mimeType,
                                               state |-> "recording", stopTask |-> FALSE])
            /\ mediaRecorder' = Len(recorders) + 1
            /\ audioChunks' = <<>>
            /\ isRecording' = TRUE
            /\ recordText' = RecordTextFor(TRUE)
            /\ recordingStatus' = StatusFor(TRUE)
            /\ UNCHANGED alertVars
       ELSE \* new MediaRecorder throws NotSupportedError: the catch block
            /\ ShowAlert("Microphone access denied or not available", "danger")
            /\ UNCHANGED <<recorders, mediaRecorder, audioChunks, isRecording, recordText,
                           recordingStatus>>
    /\ UNCHANGED <<inputValue, chatVars, supported, txVars>>

\* getUserMedia rejects: denied or no device
GumReject ==
    /\ gumPending > 0
    /\ gumPending' = gumPending - 1
    /\ ShowAlert("Microphone access denied or not available", "danger")
    /\ UNCHANGED <<inputValue, chatVars, supported, recordingStatus, isRecording,
                   mediaRecorder, audioChunks, streams, recorders, recordText, txVars>>

\* the task queued by recorder.stop(): dataavailable, then stop, whose handler
\* builds the blob and enters processAudioBlob up to its first await
RecorderStopTask ==
    \E r \in 1..Len(recorders) :
        LET chunks == Append(audioChunks, [rec |-> r]) IN
        /\ recorders[r].stopTask
        /\ recorders' = [recorders EXCEPT ![r].stopTask = FALSE]
        /\ audioChunks' = chunks
        /\ txReqs' = Append(txReqs, [pc |-> "fetch", rec |-> r,
                                     blob |-> [chunks |-> chunks,
                                               type |-> recorders[r].mimeType]])
        /\ UNCHANGED <<inputValue, chatVars, alertVars, supported, recordingStatus,
                       isRecording, mediaRecorder, gumPending, streams, recordText,
                       fileInput, panelVars>>

\* handleAudioFile up to its first await; the change event of the file input
\* carries the selected file, or none
HandleAudioFile ==
    \E hasFile \in BOOLEAN :
        IF ~hasFile
        THEN /\ ~fileInput
             /\ UNCHANGED vars
        ELSE /\ CanStart
             /\ started' = started + 1
             /\ fileInput' = TRUE
             /\ recordingStatus' = "Processing uploaded audio..."
             /\ txReqs' = Append(txReqs, [pc |-> "fetch", rec |-> 0,
                                          blob |-> [chunks |-> <<>>, type |-> "file"]])
             /\ UNCHANGED <<inputValue, isAsking, inputDisabled, buttonDisabled, chat,
                            askReqs, addLog, clearReqs, alertVars, supported, recVars,
                            panelVars>>

\* String.prototype.toUpperCase on a language code
ToUpperCase(l) == IF l = "en" THEN "EN" ELSE IF l = "hi" THEN "HI" ELSE l

\* a forEach without the test on the trimmed text
RECURSIVE RenderEverySegment(_)
RenderEverySegment(segments) ==
    IF segments = <<>> THEN <<>>
    ELSE <<[speaker |-> ParseHtml(Head(segments).speaker),
            text |-> ParseHtml(EscapeHtml(Trim(Head(segments).text)))]>>
         \o RenderEverySegment(Tail(segments))

\* the forEach of displayTranscriptionResult: one entry per segment whose
\* trimmed text is not empty; the speaker goes into the markup as it is, the
\* text through escapeHtml
RECURSIVE RenderSegments(_)
RenderSegments(segments) ==
    IF segments = <<>> THEN <<>>
    ELSE LET segment == Head(segments)
             text == Trim(segment.text)
         IN (IF text # <<>>
             THEN <<[speaker |-> ParseHtml(segment.speaker),
                     text |-> ParseHtml(EscapeHtml(text))]>>
             ELSE <<>>) \o RenderSegments(Tail(segments))

SingleSpeakerNotice == [kind |-> "single", count |-> 0, entries |-> <<>>]

\* what displayTranscriptionResult puts into #speaker-info
RenderSpeakerInfo(result) ==
    IF Len(result.segments) > 1 /\ result.speaker_count > 1
    THEN [kind |-> "speakers", count |-> result.speaker_count,
          entries |-> RenderSegments(result.segments)]
    ELSE SingleSpeakerNotice

\* displayTranscriptionResult
DisplayTranscriptionResult(result) ==
    /\ currentTranscription' = result.transcription
    /\ transcriptionText' = [text |-> ParseHtml(EscapeHtml(result.transcription)),
                             language |-> ToUpperCase(result.language)]
    /\ speakerInfo' = RenderSpeakerInfo(result)
    /\ panelVisible' = TRUE
    /\ shownResult' = result

\* the finally block of processAudioBlob, and of handleAudioFile, which also
\* empties the file input
TxFinally(i) ==
    /\ recordingStatus' = ""
    /\ fileInput' = IF txReqs[i].rec = 0 THEN FALSE ELSE fileInput
    /\ txReqs' = RemoveAt(txReqs, i)
    /\ UNCHANGED <<inputValue, chatVars, supported, recVars>>

\* a catch block that also hides the transcription panel
TxCatchHidingPanel(i) ==
    /\ ShowAlert(IF txReqs[i].rec = 0 THEN "Error processing audio file"
                 ELSE "Error processing audio", "danger")
    /\ panelVisible' = FALSE
    /\ UNCHANGED <<currentTranscription, transcriptionText, speakerInfo, shownResult>>
    /\ TxFinally(i)

\* the catch block of processAudioBlob or handleAudioFile, then finally
TxCatch(i) ==
    /\ ShowAlert(IF txReqs[i].rec = 0 THEN "Error processing audio file"
                 ELSE "Error processing audio", "danger")
    /\ UNCHANGED panelVars
    /\ TxFinally(i)

\* fetch('/transcribe_audio') resolves with a response
TxFetchResolve ==
    \E i \in 1..Len(txReqs) :
        /\ txReqs[i].pc = "fetch"
        /\ txReqs' = [txReqs EXCEPT ![i].pc = "json"]
        /\ UNCHANGED <<inputValue, chatVars, alertVars, supported, recordingStatus,
                       recVars, fileInput, panelVars>>

\* fetch('/transcribe_audio') of request i rejects: transport error
TxFetchRejectAt(i) ==
    /\ txReqs[i].pc = "fetch"
    /\ TxCatch(i)

TxFetchReject == \E i \in 1..Len(txReqs) : TxFetchRejectAt(i)

\* response.json() of request i rejects: the body is not JSON
TxJsonRejectAt(i) ==
    /\ txReqs[i].pc = "json"
    /\ TxCatch(i)

TxJsonReject == \E i \in 1..Len(txReqs) : TxJsonRejectAt(i)

\* response.json() of request i resolves with result
TxJsonResolveWith(i, result) ==
    /\ txReqs[i].pc = "json"
    /\ IF result.kind = "null"
       THEN TxCatch(i)   \* result.success throws a TypeError
       ELSE IF result.success
       THEN /\ DisplayTranscriptionResult(result)
            /\ UNCHANGED alertVars
            /\ TxFinally(i)
       ELSE /\ ShowAlert(IF result.error # "" THEN result.error
                         ELSE "Transcription failed", "danger")
            /\ UNCHANGED panelVars
            /\ TxFinally(i)

TxJsonResolve ==
    \E i \in 1..Len(txReqs), result \in TranscribeResults : TxJsonResolveWith(i, result)

\* useTranscription
UseTranscription ==
    IF currentTranscription # <<>>
    THEN /\ inputValue' = currentTranscription
         /\ panelVisible' = FALSE
         /\ UNCHANGED <<chatVars, alertVars, supported, recordingStatus, recVars, txReqs,
                        fileInput, currentTranscription, transcriptionText, speakerInfo,
                        shownResult>>
    ELSE UNCHANGED vars

\* hideTranscription
HideTranscription ==
    /\ panelVisible' = FALSE
    /\ UNCHANGED <<inputValue, chatVars, alertVars, supported, recordingStatus, recVars,
                   txReqs, fileInput, currentTranscription, transcriptionText,
                   speakerInfo, shownResult>>

Next ==
    \/ TypeInput
    \/ AskQuestion
    \/ AskFetchResolve
    \/ AskFetchReject
    \/ AskJsonReject
    \/ AskJsonResolve
    \/ ClearChat
    \/ ClearOk
    \/ ClearNotOk
    \/ ClearReject
    \/ AlertTimeout
    \/ ToggleRecording
    \/ GumResolve
    \/ GumReject
    \/ RecorderStopTask
    \/ HandleAudioFile
    \/ TxFetchResolve
    \/ TxFetchReject
    \/ TxJsonReject
    \/ TxJsonResolve
    \/ UseTranscription
    \/ HideTranscription

Spec == Init /\ [][Next]_vars

\* the voice functions alone, in a browser with any support for the three types
ProbeNext ==
    \/ ToggleRecording
    \/ GumResolve
    \/ GumReject
    \/ RecorderStopTask
    \/ TxFetchResolve
    \/ TxFetchReject
    \/ TxJsonReject
    \/ TxJsonResolve
    \/ AlertTimeout

ProbeSpec == InitIn(SUBSET MimeTypes) /\ [][ProbeNext]_vars

\* displayTranscriptionResult applied to any result
ShowResult ==
    \E result \in RenderResults :
        /\ DisplayTranscriptionResult(result)
        /\ UNCHANGED <<inputValue, chatVars, alertVars, supported, recordingStatus,
                       recVars, txReqs, fileInput>>

RenderSpec == InitIn({{"audio/webm", "audio/mp4"}}) /\ [][ShowResult]_vars

\* the request settles: each await of an askQuestion invocation eventually returns
LiveSpec ==
    /\ Spec
    /\ WF_vars(AskFetchResolve \/ AskFetchReject)
    /\ WF_vars(AskJsonResolve \/ AskJsonReject)

\* ------------------------------------------------------------- properties
IsBlank(s) == \A k \in 1..Len(s) : s[k] = " "
ControlsEnabled == ~inputDisabled /\ ~buttonDisabled
NoLoading(c) == \A k \in 1..Len(c) : c[k].cls # "loading"
LogOf(log, q) == LET Mine(e) == e.q = q IN SelectSeq(log, Mine)
TwoMessages(q) == <<[role |-> "user", q |-> q], [role |-> "assistant", q |-> q]>>
AlertShown == staleTimers' + Len(alerts') > staleTimers + Len(alerts)

\* C1: at most one /ask request is outstanding at any time, and an askQuestion
\* call made while isAsking is true sends no request, appends no message, adds
\* no loading placeholder and leaves the input field's text as it is.
C1_SingleOutstandingAsk ==
    /\ [](Len(askReqs) <= 1 /\ (isAsking <=> askReqs # <<>>))
    /\ [][(isAsking /\ AskQuestion) => UNCHANGED <<askReqs, chat, addLog, inputValue>>]_vars

\* a question is outstanding while the input field holds a question again
C1_Witness == isAsking /\ Len(askReqs) = 1 /\ Trim(inputValue) # <<>>

\* C2: every accepted question is eventually followed by a state in which
\* isAsking is false and the input and the ask button are enabled, however the
\* request settles.
C2_ControlsReleased == isAsking ~> (~isAsking /\ ControlsEnabled)

\* a question was accepted, has settled, and the controls are back
C2_Witness ==
    /\ ~isAsking /\ ControlsEnabled /\ askReqs = <<>>
    /\ Len(addLog) = 2

\* C3: when response.json() yields {success: true, answer}, the question has got
\* exactly two messages, the user's then the assistant's carrying the answer,
\* no loading placeholder is left, and the flag and controls are released; at
\* acceptance the user message carries the trimmed text and the input is cleared.
C3_SuccessAppendsAnswer ==
    [][/\ \A i \in 1..Len(askReqs), result \in AskResults :
            (AskJsonResolveWith(i, result) /\ result.kind = "obj" /\ result.success) =>
                /\ LogOf(addLog', askReqs[i].q) = TwoMessages(askReqs[i].q)
                /\ addLog' = Append(addLog, [role |-> "assistant", q |-> askReqs[i].q])
                /\ chat'[Len(chat')] = [cls |-> "assistant", id |-> 0, text |-> result.answer]
                /\ NoLoading(chat')
                /\ ~isAsking' /\ ControlsEnabled'
       /\ (AskQuestion /\ AskAccepted) =>
                /\ inputValue' = <<>>
                /\ Len(chat') >= 2
                /\ chat'[Len(chat') - 1] =
                       [cls |-> "user", id |-> 0, text |-> Trim(inputValue)]
                /\ ~IsBlank(Trim(inputValue))
                /\ Trim(inputValue)[1] # " "
                /\ Trim(inputValue)[Len(Trim(inputValue))] # " "
                /\ chat'[Len(chat')].cls = "loading"
      ]_vars

\* the padded question " b " was answered: its trimmed text, then the answer
C3_Witness ==
    /\ ~isAsking /\ ControlsEnabled
    /\ chat = <<[cls |-> "user", id |-> 0, text |-> <<"b">>],
                [cls |-> "assistant", id |-> 0, text |-> <<"r">>]>>

\* C4: when the request yields success:false or fails in transport, the loading
\* placeholder is gone, exactly one alert is displayed, carrying the server's
\* reason or the generic text, one apology has been appended after the user
\* message, and the flag and controls are released.
C4_FailureAlertsAndApologises ==
    [][\A i \in 1..Len(askReqs) :
          /\ \A result \in AskResults :
               (AskJsonResolveWith(i, result) /\ result.kind = "obj" /\ ~result.success) =>
                   /\ alerts' = <<[message |-> IF result.error # "" THEN result.error
                                               ELSE "Failed to get answer",
                                   type |-> "danger"]>>
                   /\ AlertShown
                   /\ chat'[Len(chat')] = [cls |-> "assistant", id |-> 0, text |-> ServerApology]
          /\ AskFetchRejectAt(i) =>
                   /\ alerts' = <<[message |-> "Network error occurred", type |-> "danger"]>>
                   /\ AlertShown
                   /\ chat'[Len(chat')] = [cls |-> "assistant", id |-> 0, text |-> NetworkApology]
          /\ (AskFetchRejectAt(i) \/ \E result \in AskResults :
                  AskJsonResolveWith(i, result) /\ result.kind = "obj" /\ ~result.success) =>
                   /\ LogOf(addLog', askReqs[i].q) = TwoMessages(askReqs[i].q)
                   /\ NoLoading(chat')
                   /\ ~isAsking' /\ ControlsEnabled'
      ]_vars

\* the server's reason is on display next to the apology
C4_Witness ==
    /\ ~isAsking /\ ControlsEnabled
    /\ alerts = <<[message |-> "index not ready", type |-> "danger"]>>
    /\ Len(chat) = 2 /\ chat[1].cls = "user" /\ chat[2].text = ServerApology
    /\ staleTimers = 1

\* C5: an askQuestion call on an empty or whitespace-only input issues no
\* request, appends no message and leaves isAsking and the controls alone.
C5_BlankInputIgnored ==
    [][(IsBlank(inputValue) /\ AskQuestion) =>
          UNCHANGED <<askReqs, chat, addLog, isAsking, inputDisabled, buttonDisabled>>]_vars

\* the field holds only whitespace and nothing is outstanding
C5_Witness == inputValue = <<" ">> /\ ~isAsking /\ askReqs = <<>> /\ started < MaxOps

\* C6: messages are appended in submission order: the k-th assistant message
\* answers the k-th accepted question and sits between that question's user
\* message and the next question's.
C6_AnswersInOrder ==
    \A j \in 1..Len(addLog) :
        addLog[j] = [role |-> IF j % 2 = 1 THEN "user" ELSE "assistant", q |-> (j + 1) \div 2]

\* two questions were accepted and answered
C6_Witness == Len(addLog) = 4 /\ ~isAsking

LiveStreams == {s \in 1..Len(streams) : streams[s]}
StartedRecorders == {r \in 1..Len(recorders) : recorders[r].state = "recording"}
RecordedLiveStreams ==
    {recorders[r].stream : r \in {x \in 1..Len(recorders) : streams[recorders[x].stream]}}

\* C7: when the clear-history request fails, with a non-2xx response or a
\* transport error, clearChat shows an error alert and leaves the messages as
\* they were.
C7_ClearFailureAlerts ==
    [][(ClearNotOk \/ ClearReject) =>
          /\ AlertShown
          /\ Len(alerts') = 1 /\ alerts'[1].type = "danger"
          /\ chat' = chat]_vars

\* C8: at most one recording session is active at a time: never more than one
\* started MediaRecorder, nor more than one live stream a recorder was created
\* on (the streams no recorder was created on are left to C10).
C8_OneRecordingSession ==
    /\ Cardinality(StartedRecorders) <= 1
    /\ Cardinality(RecordedLiveStreams) <= 1

\* C9: once stopRecording has stopped a recorder, every track of that recorder's
\* stream is stopped: from the stop step itself, while the stop task and the
\* transcription request are pending, and after the request has settled.
C9_TracksReleasedOnStop ==
    /\ \A r \in 1..Len(recorders) :
          recorders[r].state = "inactive" => ~streams[recorders[r].stream]
    /\ \A i \in 1..Len(txReqs) :
          txReqs[i].rec # 0 => ~streams[recorders[txReqs[i].rec].stream]

\* a recording was stopped and its transcription request has failed
C9_Witness ==
    /\ \E r \in 1..Len(recorders) :
          recorders[r].state = "inactive" /\ ~recorders[r].stopTask
    /\ txReqs = <<>>
    /\ alerts = <<[message |-> "Error processing audio", type |-> "danger"]>>

\* C10: when isRecording is false and no startRecording is in progress, no
\* microphone track is live.
C10_NoLiveTrackWhenIdle ==
    (~isRecording /\ gumPending = 0) => LiveStreams = {}

\* ------------------------------------------------------------- voice machine
\* the transcription round-trip of a stopped recording is outstanding: its stop
\* event has not fired yet, or its request has not settled
Processing ==
    \/ \E r \in 1..Len(recorders) : recorders[r].stopTask
    \/ \E i \in 1..Len(txReqs) : txReqs[i].rec # 0

VoiceState ==
    IF isRecording THEN "Recording" ELSE IF Processing THEN "Processing" ELSE "Idle"

MachineTransitions ==
    {<<"Idle", "Recording">>, <<"Recording", "Processing">>, <<"Processing", "Idle">>}

\* the recorder's stop event fires and the transcription request settles
VoiceLiveSpec ==
    /\ Spec
    /\ WF_vars(RecorderStopTask)
    /\ WF_vars(TxFetchResolve \/ TxFetchReject)
    /\ WF_vars(TxJsonResolve \/ TxJsonReject)

\* C11: the voice capture machine only moves Idle to Recording, Recording to
\* Processing and Processing to Idle; a stop request while Idle or Processing
\* changes nothing, and a toggle made while Processing starts no recording (no
\* microphone acquisition is begun).
C11_OnlyMachineTransitions ==
    /\ [][VoiceState' # VoiceState => <<VoiceState, VoiceState'>> \in MachineTransitions]_vars
    /\ [][(VoiceState # "Recording" /\ StopRecording) => UNCHANGED vars]_vars
    /\ [][(VoiceState = "Processing" /\ ToggleRecording)
            => UNCHANGED <<gumPending, recorders, isRecording>>]_vars

\* C12: every stop of an active recording is eventually followed by a state in
\* which the status line is empty and the machine is Idle, provided the stop
\* event fires and the request settles.
C12_StopLeadsToIdle ==
    (\E r \in 1..Len(recorders) : recorders[r].stopTask)
        ~> (recordingStatus = "" /\ VoiceState = "Idle")

\* C13: once a shown transcript was consumed or dismissed (the panel is hidden
\* again), a useTranscription call does not copy it into the question input.
C13_TranscriptNotRetained ==
    [][(currentTranscription # <<>> /\ ~panelVisible /\ UseTranscription)
          => inputValue' = inputValue]_vars

\* the positions of the segments whose text is more than blanks
KeptSegments(segs) == {k \in 1..Len(segs) : ~IsBlank(segs[k].text)}

\* the j-th of them, in segment order
NthKept(segs, j) ==
    CHOOSE k \in KeptSegments(segs) : Cardinality({m \in KeptSegments(segs) : m <= k}) = j

\* C14: the per-speaker breakdown is rendered exactly when the result has more
\* than one segment and speaker_count > 1; it then has one entry per segment
\* whose trimmed text is non-empty, in segment order, each with that segment's
\* speaker and trimmed text; otherwise the single-speaker notice is rendered.
C14_SpeakerBreakdown ==
    shownResult.kind = "obj" =>
        LET segs == shownResult.segments IN
        IF Len(segs) > 1 /\ shownResult.speaker_count > 1
        THEN /\ speakerInfo.kind = "speakers"
             /\ Len(speakerInfo.entries) = Cardinality(KeptSegments(segs))
             /\ \A j \in 1..Len(speakerInfo.entries) :
                    /\ speakerInfo.entries[j].speaker = segs[NthKept(segs, j)].speaker
                    /\ speakerInfo.entries[j].text = Trim(segs[NthKept(segs, j)].text)
        ELSE speakerInfo = SingleSpeakerNotice

\* a result of two speakers whose blank segment stands between two spoken ones
\* of different speakers was rendered
C14_Witness ==
    /\ shownResult.kind = "obj"
    /\ shownResult.speaker_count > 1
    /\ Len(shownResult.segments) = 3
    /\ KeptSegments(shownResult.segments) = {1, 3}
    /\ shownResult.segments[1].speaker # shownResult.segments[3].speaker
    /\ shownResult.segments[3].text = <<"<">>
    /\ Len(speakerInfo.entries) = 2

\* the body of a success:false response carrying reason e
FailureBody(e) ==
    [kind |-> "obj", success |-> FALSE, transcription |-> <<>>, error |-> e,
     language |-> "", segments |-> <<>>, speaker_count |-> 0]

OnlyAlert(message) == alerts' = <<[message |-> message, type |-> "danger"]>>

\* C15: when a transcription request, of a recording or of an uploaded file,
\* fails with success:false or in transport, one alert with the server's reason
\* or a generic text is shown, the transcription panel is neither shown nor
\* changed, and the request is not repeated; a request is sent only when a
\* recording's blob is built or a file is chosen, one per blob.
C15_FailureAlertsNoRetry ==
    /\ [][\A i \in 1..Len(txReqs) : \A e \in TranscribeErrors :
            (Len(txReqs') < Len(txReqs) /\ TxJsonResolveWith(i, FailureBody(e)))
                => /\ OnlyAlert(IF e # "" THEN e ELSE "Transcription failed")
                   /\ UNCHANGED panelVars
                   /\ txReqs' = RemoveAt(txReqs, i)]_vars
    /\ [][\A i \in 1..Len(txReqs) :
            (Len(txReqs') < Len(txReqs) /\ TxFetchRejectAt(i))
                => /\ \/ OnlyAlert("Error processing audio")
                      \/ OnlyAlert("Error processing audio file")
                   /\ UNCHANGED panelVars
                   /\ txReqs' = RemoveAt(txReqs, i)]_vars
    /\ [][Len(txReqs') > Len(txReqs)
            => /\ Len(txReqs') = Len(txReqs) + 1
               /\ \/ started' = started + 1 /\ txReqs'[Len(txReqs')].rec = 0
                  \/ \E r \in 1..Len(recorders) :
                        /\ recorders[r].stopTask /\ ~recorders'[r].stopTask
                        /\ txReqs'[Len(txReqs')].rec = r]_vars
    /\ [](\A r \in 1..Len(recorders) :
            Cardinality({i \in 1..Len(txReqs) : txReqs[i].rec = r}) <= 1)

\* a transcript is on display and a later request has failed with the server's
\* reason: the panel still shows the transcript and nothing is outstanding
C15_Witness ==
    /\ panelVisible
    /\ shownResult.kind = "obj"
    /\ currentTranscription = <<"a">>
    /\ alerts = <<[message |-> "no speech", type |-> "danger"]>>
    /\ txReqs = <<>>
    /\ started = 2

\* C16: the blob a recording cycle submits consists of exactly the chunks its
\* own recorder captured, in capture order, and carries the format chosen when
\* the cycle started.
C16_BlobOfOwnChunks ==
    \A i \in 1..Len(txReqs) :
        txReqs[i].rec # 0 =>
            /\ txReqs[i].blob.chunks = <<[rec |-> txReqs[i].rec]>>
            /\ txReqs[i].blob.type = recorders[txReqs[i].rec].mimeType

\* the order in which startRecording prefers the formats
Preference == <<"audio/wav", "audio/webm", "audio/mp4">>

\* C17: whatever the runtime supports, every recorder that is created has the
\* first supported format of the order audio/wav, audio/webm, audio/mp4, and so
\* never a format the runtime reported as unsupported.
C17_FirstSupportedFormat ==
    \A r \in 1..Len(recorders) :
        /\ recorders[r].mimeType \in supported
        /\ \E k \in 1..Len(Preference) :
              /\ Preference[k] = recorders[r].mimeType
              /\ \A j \in 1..(k - 1) : Preference[j] \notin supported

\* a recorder was created where audio/wav is unsupported and both others are
C17_Witness ==
    /\ supported = {"audio/webm", "audio/mp4"}
    /\ Len(recorders) = 1
    /\ recorders[1].mimeType = "audio/webm"

\* C18: in the displayed sequence every assistant message comes directly after
\* a user message (that of its question), and the empty-chat placeholder is never
\* displayed together with a message or a loading placeholder.
C18_ChatWellFormed ==
    /\ \A k \in 1..Len(chat) :
          chat[k].cls = "assistant" => k > 1 /\ chat[k - 1].cls = "user"
    /\ (\E k \in 1..Len(chat) : chat[k].cls = "empty-chat")
          => \A k \in 1..Len(chat) : chat[k].cls = "empty-chat"

\* C19: whenever isRecording is true the status line shows the recording text;
\* no other activity (an earlier transcription round-trip or a file upload
\* starting or completing) clears or overwrites it.
C19_RecordingStatusShown ==
    isRecording => recordingStatus = StatusFor(TRUE)

\* C20: at most one alert is displayed at any time; showAlert removes what is
\* displayed before inserting the new alert; an alert leaves the display without
\* being replaced only by its own timer (no older timer is pending then: the
\* timers fire in the order they were armed); and a timer whose alert is gone
\* changes nothing on the display.
C20_OneAlertOwnTimer ==
    /\ [](Len(alerts) <= 1)
    /\ [][AlertShown => Len(alerts') = 1 /\ staleTimers' = staleTimers + Len(alerts)]_vars
    /\ [][Len(alerts') < Len(alerts)
            => staleTimers = 0 /\ staleTimers' = 0]_vars
    /\ [][staleTimers' < staleTimers => alerts' = alerts]_vars

\* an alert is displayed while the timers of two alerts shown before it, and
\* removed by showAlert, are pending
C20_Witness ==
    /\ Len(alerts) = 1
    /\ staleTimers = 2

====
